---------------------------- MODULE Spec2Model ----------------------------
(***************************************************************************)
(* A model of elfo-dumper's chunked, line-delimited dump serializer        *)
(* (src/elfo-dumper/src/serializer.rs).                                    *)
(*                                                                         *)
(* A byte is a one-character string and a buffer a sequence of bytes.  The *)
(* JSON encoder is modelled by the sequence of write_all calls it issues   *)
(* (its "pieces"), because LimitedWrite decides per write, not per record. *)
(***************************************************************************)
EXTENDS Integers, Sequences, FiniteSets, TLC

\* ------------------------------------------------------------------ bounds

\* Calls (append or take) made on one serializer in a behaviour.
MaxCalls == 3
\* A chunk size that a single emitted line already exceeds.
ChunkSizeLow == 40
\* A per-record budget that every record of Dumps fits in.
MaxSizeLarge == 200

\* ------------------------------------------------------------- byte strings

Q == "\""
BS == "\\"
NL == "\n"

S_ts == <<"t", "s">>
S_g == <<"g">>
S_k == <<"k">>
S_n == <<"n">>
S_s == <<"s">>
S_t == <<"t">>
S_th == <<"t", "h">>
S_d == <<"d">>
S_cl == <<"c", "l">>
S_mn == <<"m", "n">>
S_mp == <<"m", "p">>
S_mk == <<"m", "k">>
S_m == <<"m">>
S_c == <<"c">>

S_group == <<"g", "r", "o", "u", "p">>
S_key == <<"k", "e", "y">>
S_Out == <<"O", "u", "t">>
S_some == <<"s", "o", "m", "e">>
S_Some == <<"S", "o", "m", "e">>
S_Bad == <<"B", "a", "d">>
S_body == <<"b", "o", "d", "y">>
S_path == <<"p", "a", "t", "h">>
S_Regular == <<"R", "e", "g", "u", "l", "a", "r">>
S_Request == <<"R", "e", "q", "u", "e", "s", "t">>
S_Response == <<"R", "e", "s", "p", "o", "n", "s", "e">>
TRUNCATED == <<" ", "T", "R", "U", "N", "C", "A", "T", "E", "D">>

Digits == <<"0", "1", "2", "3", "4", "5", "6", "7", "8", "9">>

RECURSIVE Itoa(_)
\* The decimal digits of n, as the encoder's integer formatter writes them.
Itoa(n) ==
    IF n < 10 THEN <<Digits[n + 1]>>
    ELSE Itoa(n \div 10) \o <<Digits[(n % 10) + 1]>>

RECURSIVE Repeat(_, _)
Repeat(b, n) == IF n = 0 THEN <<>> ELSE <<b>> \o Repeat(b, n - 1)

RECURSIVE FlattenRange(_, _, _)
\* The bytes of pieces[lo..hi] (split in halves to keep the evaluation shallow).
FlattenRange(ps, lo, hi) ==
    IF lo > hi THEN <<>>
    ELSE IF lo = hi THEN ps[lo]
    ELSE FlattenRange(ps, lo, (lo + hi) \div 2)
         \o FlattenRange(ps, ((lo + hi) \div 2) + 1, hi)

\* The bytes of a sequence of pieces.
Flatten(ps) == FlattenRange(ps, 1, Len(ps))

IsSuffix(suf, s) ==
    /\ Len(suf) <= Len(s)
    /\ SubSeq(s, Len(s) - Len(suf) + 1, Len(s)) = suf

IsPrefix(pre, s) ==
    /\ Len(pre) <= Len(s)
    /\ SubSeq(s, 1, Len(pre)) = pre

\* ------------------------------------------------------------ JSON encoder

NoError == "ok"
IoError == "failed to write whole buffer"
KeyMustBeAString == "key must be a string"
FieldError == "field cannot be encoded"
InvalidPath == "path contains invalid UTF-8 characters"

NeedsEscape(b) == b \in {Q, BS}

RECURSIVE StrFragments(_, _, _)
\* The writes for the contents of a string: each run of plain bytes is one
\* write, each escaped byte is one two-byte write.
StrFragments(s, i, run) ==
    LET flush == IF run = <<>> THEN <<>> ELSE <<run>>
    IN  IF i > Len(s) THEN flush
        ELSE IF NeedsEscape(s[i])
             THEN flush \o <<<<BS, s[i]>>>> \o StrFragments(s, i + 1, <<>>)
             ELSE StrFragments(s, i + 1, Append(run, s[i]))

\* serialize_str: opening quote, escaped contents, closing quote.
StrPieces(s) == <<<<Q>>>> \o StrFragments(s, 1, <<>>) \o <<<<Q>>>>

\* A number is formatted into a stack buffer and written at once.
NumPieces(n) == <<Itoa(n)>>

\* One entry of an object: separator unless first, key, colon, value.
FieldPieces(first, key, value) ==
    (IF first THEN <<>> ELSE <<<<",">>>>) \o StrPieces(key) \o <<<<":">>>> \o value

\* The encoding of a message payload on its own: the writes issued and the
\* error the encoder ends with (NoError if none).  "Some" is a struct with one
\* string field; "BadKey" is a map keyed by a tuple, refused after the opening
\* brace; "BadPath" is a struct whose path field is not valid UTF-8, refused
\* at the value; "Empty" is a struct without fields, written as its two
\* braces.
MessageEncoding(message) ==
    CASE message.type = "Some" ->
            [pieces |-> <<<<"{">>>>
                        \o FieldPieces(TRUE, S_body,
                                       StrPieces(Repeat("X", message.len)))
                        \o <<<<"}">>>>,
             err |-> NoError]
      [] message.type = "BadKey" ->
            [pieces |-> <<<<"{">>>>, err |-> KeyMustBeAString]
      [] message.type = "BadPath" ->
            [pieces |-> <<<<"{">>>> \o StrPieces(S_path) \o <<<<":">>>>,
             err |-> InvalidPath]
      [] message.type = "Empty" ->
            [pieces |-> <<<<"{">>, <<"}">>>>, err |-> NoError]

MessageKindName(kind) ==
    CASE kind = "Regular" -> S_Regular
      [] kind = "Request" -> S_Request
      [] kind = "Response" -> S_Response

NoMessage == [some |-> FALSE, text |-> <<>>]
SomeMessage(text) == [some |-> TRUE, text |-> text]

\* The fields of CompactDump::serialize that precede the payload.
HeadPieces(dump, class, node_no, message_name) ==
    <<<<"{">>>>
    \o FieldPieces(TRUE, S_ts, NumPieces(dump.timestamp))
    \o FieldPieces(FALSE, S_g, StrPieces(dump.group))
    \o (IF dump.key # <<>>
        THEN FieldPieces(FALSE, S_k, StrPieces(dump.key))
        ELSE <<>>)
    \o FieldPieces(FALSE, S_n, NumPieces(node_no))
    \o FieldPieces(FALSE, S_s, NumPieces(dump.sequence_no))
    \o FieldPieces(FALSE, S_t, NumPieces(dump.trace_id))
    \o FieldPieces(FALSE, S_th, NumPieces(dump.thread_id))
    \o FieldPieces(FALSE, S_d, StrPieces(dump.direction))
    \o FieldPieces(FALSE, S_cl, StrPieces(class))
    \o FieldPieces(FALSE, S_mn, StrPieces(message_name))
    \o FieldPieces(FALSE, S_mp, StrPieces(dump.message_protocol))
    \o FieldPieces(FALSE, S_mk, StrPieces(MessageKindName(dump.message_kind)))

\* The payload field of CompactDump::serialize: the substituted text if there
\* is one, the payload's own encoding otherwise.
PayloadEncoding(dump, message) ==
    IF message.some
    THEN [pieces |-> StrPieces(message.text), err |-> NoError]
    ELSE MessageEncoding(dump.message)

\* The tail with a correlation field for every kind.
TailPiecesAlways(dump) ==
    FieldPieces(FALSE, S_c, NumPieces(dump.correlation_id)) \o <<<<"}">>>>

\* The correlation field, if any, and the closing brace.
TailPieces(dump) ==
    (IF dump.message_kind # "Regular"
     THEN FieldPieces(FALSE, S_c, NumPieces(dump.correlation_id))
     ELSE <<>>)
    \o <<<<"}">>>>

\* The `?` of CompactDump::serialize: an error of the payload ends the
\* encoding where it is raised.
JoinEncoding(head, payload, tail) ==
    IF payload.err # NoError
    THEN [pieces |-> head \o FieldPieces(FALSE, S_m, payload.pieces),
          err |-> payload.err]
    ELSE [pieces |-> head \o FieldPieces(FALSE, S_m, payload.pieces) \o tail,
          err |-> NoError]

\* A correlation id the encoder fails on: the one way an encoding can fail
\* behind the payload, and so the one way the retry of do_append can fail.
\* It stands outside the ids the encoder writes as numbers.
Unencodable == -1

\* The correlation field and the closing brace, with the error of a
\* correlation id that cannot be encoded.
TailEncoding(dump) ==
    IF dump.message_kind # "Regular" /\ dump.correlation_id = Unencodable
    THEN [pieces |-> <<<<",">>>> \o StrPieces(S_c) \o <<<<":">>>>,
          err |-> FieldError]
    ELSE [pieces |-> TailPieces(dump), err |-> NoError]

\* The `?` of the last serialize_field.
EndEncoding(body, tail) ==
    IF body.err # NoError THEN body
    ELSE [pieces |-> body.pieces \o tail.pieces, err |-> tail.err]

\* CompactDump::serialize: the writes for one record and the error it ends
\* with.  `message` is the substituted payload text, or NoMessage to encode
\* the payload itself.
CompactDumpEncoding(dump, class, node_no, message_name, message) ==
    EndEncoding(JoinEncoding(HeadPieces(dump, class, node_no, message_name),
                             PayloadEncoding(dump, message),
                             <<>>),
                TailEncoding(dump))

\* ------------------------------------------------------------ LimitedWrite

\* LimitedWrite::write with >= for >: a buffer of exactly the remaining budget
\* is refused too.
LimitedWrite_write_short(sink, remaining, buf) ==
    IF Len(buf) >= remaining
    THEN [sink |-> sink, remaining |-> remaining, n |-> 0]
    ELSE [sink |-> sink \o buf, remaining |-> remaining - Len(buf),
          n |-> Len(buf)]

\* LimitedWrite::write without the budget: every buffer is taken.
LimitedWrite_write_unlimited(sink, remaining, buf) ==
    [sink |-> sink \o buf, remaining |-> remaining, n |-> Len(buf)]

\* LimitedWrite::flush: Ok(()), and nothing else.
LimitedWrite_flush(sink, remaining) ==
    [sink |-> sink, remaining |-> remaining]

\* LimitedWrite::write: a buffer longer than the remaining budget is refused
\* with a zero-length write; otherwise the budget shrinks and the sink (a
\* Vec<u8>) takes all of it.
LimitedWrite_write(sink, remaining, buf) ==
    IF Len(buf) > remaining
    THEN [sink |-> sink, remaining |-> remaining, n |-> 0]
    ELSE [sink |-> sink \o buf, remaining |-> remaining - Len(buf),
          n |-> Len(buf)]

\* io::Write::write_all on a LimitedWrite, given what its write returned: a
\* zero-length write of a non-empty buffer is an I/O error.
WriteAllFailed(buf, w) == buf # <<>> /\ w.n = 0

\* One write_all of the encoder through a LimitedWrite.  w is the writer
\* (its sink and remaining budget) with io set once a write has failed: the
\* encoder returns at its first error and writes nothing after it.
WriteStep(w, buf) ==
    IF w.io THEN w
    ELSE LET r == LimitedWrite_write(w.sink, w.remaining, buf)
         IN  [sink |-> r.sink, remaining |-> r.remaining,
              io |-> WriteAllFailed(buf, r)]

RECURSIVE WriteRange(_, _, _, _)
\* The writes of pieces[lo..hi] in order (split in halves to keep the
\* evaluation shallow).
WriteRange(w, pieces, lo, hi) ==
    IF lo > hi THEN w
    ELSE IF lo = hi THEN WriteStep(w, pieces[lo])
    ELSE LET left == WriteRange(w, pieces, lo, (lo + hi) \div 2)
         IN  IF left.io THEN left
             ELSE WriteRange(left, pieces, ((lo + hi) \div 2) + 1, hi)

\* The encoder's writes through LimitedWrite(sink, remaining).
WritePieces(sink, remaining, pieces) ==
    WriteRange([sink |-> sink, remaining |-> remaining, io |-> FALSE],
               pieces, 1, Len(pieces))

\* serde_json's result for what the writer and the value reported.
EncodeResult(w, enc) ==
    [sink |-> w.sink, err |-> IF w.io THEN IoError ELSE enc.err]

\* serde_json::to_writer(LimitedWrite(sink, limit), value).
to_writer_limited(sink, limit, enc) ==
    EncodeResult(WritePieces(sink, limit, enc.pieces), enc)

\* serde_json::to_writer(&mut Vec<u8>, value): a Vec<u8> takes every write.
to_writer(sink, enc) ==
    [sink |-> sink \o Flatten(enc.pieces), err |-> enc.err]

\* serde_json::Error::is_io.
is_io(err) == err = IoError

\* truncate that cuts nothing: a failed attempt's bytes stay in the buffer.
truncate_nothing(vec, len) == vec

\* Vec::truncate.
truncate(vec, len) == IF Len(vec) > len THEN SubSeq(vec, 1, len) ELSE vec

\* ------------------------------------------------------------------ Report

Levels == {"Warn", "Error"}

\* LevelFilter::into_level: no level for a filter that is switched off.
into_level(filter) ==
    IF filter = "Off" THEN [some |-> FALSE, level |-> "Off"]
    ELSE [some |-> TRUE, level |-> filter]

EmptyMap == <<>>

\* Report::default.
EmptyReport == [appended |-> 0, failed |-> EmptyMap, overflow |-> EmptyMap]

FailedKey(dump) == <<dump.message_protocol, dump.message_name>>
OverflowKey(dump, truncated) ==
    <<dump.message_protocol, dump.message_name, truncated>>

\* HashMap::insert of a key the map does not hold.
Insert(map, key, value) ==
    [k \in DOMAIN map \cup {key} |-> IF k = key THEN value ELSE map[k]]

\* add_failed's entry without the overwrite of the level of an entry that
\* exists.
FailedEntryKeepLevel(failed, key, level, error) ==
    IF key \in DOMAIN failed
    THEN [failed EXCEPT ![key].count = @ + 1]
    ELSE Insert(failed, key, [level |-> level, error |-> error, count |-> 1])

\* The entry of add_failed: and_modify on an entry that exists,
\* or_insert_with on one that does not.
FailedEntry(failed, key, level, error) ==
    IF key \in DOMAIN failed
    THEN [failed EXCEPT ![key].level = level, ![key].count = @ + 1]
    ELSE Insert(failed, key, [level |-> level, error |-> error, count |-> 1])

\* add_overflow's entry without the increment of an entry that exists.
OverflowEntryOnce(overflow, key, level) ==
    IF key \in DOMAIN overflow
    THEN [overflow EXCEPT ![key].level = level]
    ELSE Insert(overflow, key, [level |-> level, count |-> 1])

\* The entry of add_overflow.
OverflowEntry(overflow, key, level) ==
    IF key \in DOMAIN overflow
    THEN [overflow EXCEPT ![key].level = level, ![key].count = @ + 1]
    ELSE Insert(overflow, key, [level |-> level, count |-> 1])

\* The ward! of add_failed and add_overflow: return at once without a level.
WardFailed(report, key, error, lv) ==
    IF ~lv.some THEN report
    ELSE [report EXCEPT !.failed = FailedEntry(@, key, lv.level, error)]

WardOverflow(report, key, lv) ==
    IF ~lv.some THEN report
    ELSE [report EXCEPT !.overflow = OverflowEntry(@, key, lv.level)]

\* Report::add_failed.
add_failed(report, dump, error, params) ==
    WardFailed(report, FailedKey(dump), error,
               into_level(params.on_failure_log))

\* add_overflow that keys every event as not truncated.
add_overflow_untruncated(report, dump, truncated, params) ==
    WardOverflow(report, OverflowKey(dump, FALSE),
                 into_level(params.on_failure_log))

\* Report::add_overflow.
add_overflow(report, dump, truncated, params) ==
    WardOverflow(report, OverflowKey(dump, truncated),
                 into_level(params.on_failure_log))

\* The closure merge hands merge_maps for the failed map (lines 227-230): the
\* level and the count are assigned, the error is not.
merge_failed_info(this, that) ==
    [this EXCEPT !.level = that.level, !.count = @ + that.count]

\* The overflow closure that keeps the level of the entry merged into.
merge_overflow_info_keep_level(this, that) ==
    [this EXCEPT !.count = @ + that.count]

\* The closure merge hands merge_maps for the overflow map (lines 231-234).
merge_overflow_info(this, that) ==
    [this EXCEPT !.level = that.level, !.count = @ + that.count]

\* The keys of src that merge_maps finds occupied in dest.
Occupied(dest, src) == DOMAIN dest \cap DOMAIN src

\* merge_maps: every entry of src is inserted where dest has none, and
\* folded into dest's where it has one; folded[k] is what the closure f makes
\* of the two entries of an occupied key k.
merge_maps(dest, src, folded) ==
    [k \in DOMAIN dest \cup DOMAIN src |->
        IF k \notin DOMAIN src THEN dest[k]
        ELSE IF k \notin DOMAIN dest THEN src[k]
        ELSE folded[k]]

\* merge that lets the other report's entries replace its own.
merge_replacing(self, another) ==
    [appended |-> self.appended + another.appended,
     failed |-> another.failed @@ self.failed,
     overflow |-> another.overflow @@ self.overflow]

\* Report::merge.
merge(self, another) ==
    [appended |-> self.appended + another.appended,
     failed |-> merge_maps(self.failed, another.failed,
                  [k \in Occupied(self.failed, another.failed) |->
                      merge_failed_info(self.failed[k], another.failed[k])]),
     overflow |-> merge_maps(self.overflow, another.overflow,
                  [k \in Occupied(self.overflow, another.overflow) |->
                      merge_overflow_info(self.overflow[k],
                                          another.overflow[k])])]

\* -------------------------------------------------------------- Serializer

\* Option<(&[u8], Report)>.  The slice borrows the serializer's output: it is
\* the output of the serializer the call leaves, not a copy of it.
None == [some |-> FALSE, report |-> EmptyReport]
Some(report) == [some |-> TRUE, report |-> report]

\* Serializer::with_chunk_size.
with_chunk_size(chunk_size, class, node_no) ==
    [class |-> class,
     node_no |-> node_no,
     chunk_size |-> chunk_size,
     message_buffer |-> <<>>,
     output |-> <<>>,
     need_to_clear |-> FALSE,
     report |-> EmptyReport]

\* String::from_utf8_lossy: every byte of the model is ASCII, which the
\* conversion keeps as it is.
from_utf8_lossy(bytes) == bytes

\* clear_if_needed without its clear: the buffer is never reused.
clear_never(self) == self

\* Serializer::clear_if_needed.
clear_if_needed(self) ==
    IF self.need_to_clear
    THEN [self EXCEPT !.output = <<>>, !.need_to_clear = FALSE]
    ELSE self

\* take_if_limit_exceeded with >= for >: a buffer of exactly `limit` bytes is
\* returned too.
take_if_limit_reached(self, limit) ==
    IF Len(self.output) >= limit
    THEN [self |-> [self EXCEPT !.need_to_clear = TRUE, !.report = EmptyReport],
          ret |-> Some(self.report)]
    ELSE [self |-> self, ret |-> None]

\* take_if_limit_exceeded that returns an empty report and drops its own.
take_if_limit_exceeded_dropped(self, limit) ==
    IF Len(self.output) > limit
    THEN [self |-> [self EXCEPT !.need_to_clear = TRUE, !.report = EmptyReport],
          ret |-> Some(EmptyReport)]
    ELSE [self |-> self, ret |-> None]

\* take_if_limit_exceeded that returns the report without taking it.
take_if_limit_exceeded_kept(self, limit) ==
    IF Len(self.output) > limit
    THEN [self |-> [self EXCEPT !.need_to_clear = TRUE],
          ret |-> Some(self.report)]
    ELSE [self |-> self, ret |-> None]

\* Serializer::take_if_limit_exceeded.
take_if_limit_exceeded(self, limit) ==
    IF Len(self.output) > limit
    THEN [self |-> [self EXCEPT !.need_to_clear = TRUE, !.report = EmptyReport],
          ret |-> Some(self.report)]
    ELSE [self |-> self, ret |-> None]

\* The record as do_append encodes it: in full, or with the payload replaced.
Encoding(self, dump, message) ==
    CompactDumpEncoding(dump, self.class, self.node_no, dump.message_name,
                        message)

\* The retry's result handled without the rollback of a failed retry.
do_append_retry_kept(self, dump, params, prev_len, second) ==
    IF second.err = NoError
    THEN [self |-> [self EXCEPT
                      !.output = second.sink,
                      !.report = add_overflow(@, dump, TRUE, params)],
          result |-> "appended", err |-> NoError]
    ELSE [self |-> [self EXCEPT !.output = second.sink],
          result |-> "failed", err |-> second.err]

\* do_append, from the retry's result on (lines 135-143).
do_append_retry(self, dump, params, prev_len, second) ==
    IF second.err = NoError
    THEN [self |-> [self EXCEPT
                      !.output = second.sink,
                      !.report = add_overflow(@, dump, TRUE, params)],
          result |-> "appended", err |-> NoError]
    ELSE [self |-> [self EXCEPT !.output = truncate(second.sink, prev_len)],
          result |-> "failed", err |-> second.err]

\* do_append, from the scratch buffer's final contents on (lines 126-135).
do_append_truncate(self, dump, params, prev_len, message_buffer) ==
    do_append_retry([self EXCEPT !.message_buffer = message_buffer],
                    dump, params, prev_len,
                    to_writer(self.output,
                              Encoding(self, dump,
                                  SomeMessage(from_utf8_lossy(message_buffer)))))

\* do_append, after the rollback of the first attempt (lines 103-122).
do_append_overflow(self, dump, params, prev_len, err) ==
    IF ~is_io(err)
    THEN [self |-> self, result |-> "failed", err |-> err]
    ELSE IF params.on_overflow = "Skip"
    THEN [self |-> [self EXCEPT
                      !.report = add_overflow(@, dump, FALSE, params)],
          result |-> "skipped", err |-> NoError]
    ELSE do_append_truncate(self, dump, params, prev_len,
            to_writer_limited(<<>>, params.max_size,
                              MessageEncoding(dump.message)).sink
            \o TRUNCATED)

\* do_append, from the first attempt's result on (lines 97-101).
do_append_first(self, dump, params, prev_len, first) ==
    IF first.err = NoError
    THEN [self |-> [self EXCEPT !.output = first.sink],
          result |-> "appended", err |-> NoError]
    ELSE do_append_overflow(
            [self EXCEPT !.output = truncate(first.sink, prev_len)],
            dump, params, prev_len, first.err)

\* Serializer::do_append.  result is "appended" for Ok(true), "skipped" for
\* Ok(false) and "failed" for Err(err).
do_append(self, dump, params) ==
    do_append_first(self, dump, params, Len(self.output),
        to_writer_limited(self.output, params.max_size,
                          Encoding(self, dump, NoMessage)))

\* The Ok(true) arm of append without its count of the line.
append_ok_uncounted(self) ==
    take_if_limit_exceeded([self EXCEPT !.output = Append(@, NL)],
                           self.chunk_size)

\* The Ok(true) arm of append with twice the threshold.
append_ok_late(self) ==
    take_if_limit_exceeded(
        [self EXCEPT !.report.appended = @ + 1, !.output = Append(@, NL)],
        self.chunk_size + self.chunk_size)

\* The Ok(true) arm of append without the terminator of the line.
append_ok_unterminated(self) ==
    take_if_limit_exceeded([self EXCEPT !.report.appended = @ + 1],
                           self.chunk_size)

\* The Ok(true) arm of append.
append_ok(self) ==
    take_if_limit_exceeded(
        [self EXCEPT !.report.appended = @ + 1, !.output = Append(@, NL)],
        self.chunk_size)

\* The match of append on do_append's result.
append_match(r, dump, params) ==
    CASE r.result = "appended" ->
            [result |-> r.result] @@ append_ok(r.self)
      [] r.result = "skipped" ->
            [self |-> r.self, ret |-> None, result |-> r.result]
      [] r.result = "failed" ->
            [self |-> [r.self EXCEPT
                         !.report = add_failed(@, dump, r.err, params)],
             ret |-> None, result |-> r.result]

\* Serializer::append.
append(self, dump, params) ==
    append_match(do_append(clear_if_needed(self), dump, params), dump, params)

\* take with append's threshold instead of 0.
take_over_chunk_size(self) ==
    take_if_limit_exceeded(clear_if_needed(self), self.chunk_size)

\* Serializer::take.
take(self) ==
    take_if_limit_exceeded(clear_if_needed(self), 0)

\* ------------------------------------------------------------------ inputs

\* tests::dump: the fields every dump of the tests shares.
Dump(sequence_no, name, kind, correlation_id, message) ==
    [timestamp |-> 2, group |-> S_group, key |-> S_key,
     sequence_no |-> sequence_no, trace_id |-> 1, thread_id |-> 0,
     direction |-> S_Out, message_protocol |-> S_some, message_name |-> name,
     message_kind |-> kind, correlation_id |-> correlation_id,
     message |-> message]

\* tests::dump(42, 4, true).
GoodDump == Dump(42, S_Some, "Regular", 0, [type |-> "Some", len |-> 4])
\* tests::dump(1, 1, false).
BadDump == Dump(1, S_Bad, "Regular", 0, [type |-> "BadKey", len |-> 0])
\* A message of the same name that fails with another error.
BadPathDump == Dump(3, S_Bad, "Regular", 0, [type |-> "BadPath", len |-> 0])

Dumps == {GoodDump, BadDump, BadPathDump}

\* The class and the node number of the tests' serializer.
CLASS == S_some
NODE_NO == 65535

\* tests::truncated.
MaxSizeSmall == 10

MaxSizes == {MaxSizeSmall, MaxSizeLarge}

\* The pairs (on_failure_log, on_overflow_log) tried.
LogPairs == {<<"Warn", "Warn">>, <<"Off", "Error">>, <<"Error", "Off">>}

DumpParams(max_size, on_overflow, on_failure_log, on_overflow_log) ==
    [max_size |-> max_size, on_overflow |-> on_overflow,
     on_failure_log |-> on_failure_log, on_overflow_log |-> on_overflow_log]

\* Every dump of Dumps fits in MaxSizeLarge, so the policy is varied only
\* under the budget they exceed.
ParamsSet ==
    {DumpParams(MaxSizeLarge, "Skip", l[1], l[2]) : l \in LogPairs}
    \cup {DumpParams(MaxSizeSmall, o, l[1], l[2]) :
            o \in {"Skip", "Truncate"}, l \in LogPairs}

\* Serializer::new's caller hands every record its own parameters.
DefaultParams == DumpParams(MaxSizeLarge, "Skip", "Warn", "Warn")

\* The (dump, params) pairs appended: the two dumps of the tests under every
\* parameter, and the dump that fails with the other error under the default.
Inputs ==
    ({GoodDump, BadDump} \X ParamsSet) \cup {<<BadPathDump, DefaultParams>>}

\* tests::line(42, 4).
TestLine ==
    Flatten(CompactDumpEncoding(GoodDump, CLASS, NODE_NO,
                                GoodDump.message_name, NoMessage).pieces)

\* One chunk size that one line exceeds, and one that a test line with its
\* terminator reaches exactly without exceeding it.
ChunkSizes == {ChunkSizeLow, Len(TestLine) + 1}

\* ------------------------------------------------------------------- state

VARIABLES
    ser,        \* the Serializer
    ret,        \* what the last call returned
    call,       \* the last call: its operation, inputs and outcome, and the
                \* serializer before it
    held,       \* the lines appended since the last chunk was returned, up
                \* to the last call: what its chunk should hold if it
                \* returned one
    reports,    \* the reports returned so far, in order
    ncalls,
    merging,    \* Report::merge on its own: the report merged into, the
                \* reports merged into it so far, and the report before the
                \* last merge
    encoding,   \* CompactDump::serialize on its own: the record and what the
                \* encoder wrote for it
    writing     \* LimitedWrite on its own: the writer, its first budget and
                \* its last call

vars == <<ser, ret, call, held, reports, ncalls, merging, encoding, writing>>

\* The variables of the serializer, and those of the parts run on their own.
serializer_vars == <<ser, ret, call, held, reports, ncalls>>
part_vars == <<merging, encoding, writing>>

\* A part that is not run.
Idle == <<>>

Call(op, dump, params, result, before) ==
    [op |-> op, dump |-> dump, params |-> params, result |-> result,
     before |-> before]

Init ==
    /\ \E cs \in ChunkSizes : ser = with_chunk_size(cs, CLASS, NODE_NO)
    /\ ret = None
    /\ call = Call("new", GoodDump, DefaultParams, "none", ser)
    /\ held = <<>>
    /\ reports = <<>>
    /\ ncalls = 0
    /\ merging = Idle
    /\ encoding = Idle
    /\ writing = Idle

\* The bytes the encoder writes for the record: all of its encoding, or what
\* precedes the error its payload raises.
DirectLine(dump) ==
    Flatten(CompactDumpEncoding(dump, CLASS, NODE_NO, dump.message_name,
                                NoMessage).pieces)

\* The record can be encoded and its encoding is within the budget.
Fits(dump, params) ==
    /\ MessageEncoding(dump.message).err = NoError
    /\ Len(DirectLine(dump)) <= params.max_size

\* The encoder would write more than the budget.
Overflows(dump, params) == Len(DirectLine(dump)) > params.max_size

\* The bytes of the buffer past its length at the start of the encode attempt.
Written(self, started) ==
    SubSeq(self.output, Len(started.output) + 1, Len(self.output))

\* The line an append added, if it added one: the record's encoding and a
\* terminator for a record that fits, and what was written otherwise.
Added(dump, params, r, started) ==
    IF r.result # "appended" THEN <<>>
    ELSE IF Fits(dump, params) THEN <<Append(DirectLine(dump), NL)>>
    ELSE <<Written(r.self, started)>>

\* The lines not yet returned when a call starts.
Unreturned == IF ret.some THEN <<>> ELSE held

Returned(r) == IF r.some THEN <<r.report>> ELSE <<>>

AppendStep(dump, params, r, added) ==
    /\ ser' = r.self
    /\ ret' = r.ret
    /\ call' = Call("append", dump, params, r.result, ser)
    /\ held' = Unreturned \o added
    /\ reports' = reports \o Returned(r.ret)
    /\ ncalls' = ncalls + 1
    /\ UNCHANGED part_vars

AppendCall(dump, params, r) ==
    AppendStep(dump, params, r, Added(dump, params, r, clear_if_needed(ser)))

Append_(dump, params) ==
    /\ ncalls < MaxCalls
    /\ \E r \in {append(ser, dump, params)} : AppendCall(dump, params, r)

TakeStep(r) ==
    /\ ser' = r.self
    /\ ret' = r.ret
    /\ call' = Call("take", GoodDump, DefaultParams, "none", ser)
    /\ held' = Unreturned
    /\ reports' = reports \o Returned(r.ret)
    /\ ncalls' = ncalls + 1
    /\ UNCHANGED part_vars

Take ==
    /\ ncalls < MaxCalls
    /\ \E r \in {take(ser)} : TakeStep(r)

AppendAny == \E input \in Inputs : Append_(input[1], input[2])

Next == AppendAny \/ Take

Spec == Init /\ [][Next]_vars

\* ------------------------------------------------------- reading a state

\* The output at the start of the last call's encode attempt: what a pending
\* chunk left is cleared first.
AtStart == IF call.before.need_to_clear THEN <<>> ELSE call.before.output

\* The report as the last call left it, returned or kept.
ReportAfter == IF ret.some THEN ret.report ELSE ser.report

Before == call.before.report

IsAppend == call.op = "append"
IsTake == call.op = "take"

Count(map, key) == IF key \in DOMAIN map THEN map[key].count ELSE 0

\* The entries of map other than key are those of old.
OthersKept(map, old, key) ==
    /\ DOMAIN old \subseteq DOMAIN map
    /\ DOMAIN map \subseteq DOMAIN old \cup {key}
    /\ \A k \in DOMAIN old \ {key} : map[k] = old[k]

\* The last call met a record whose encoding exceeds the budget.
OverflowSkip ==
    /\ IsAppend
    /\ call.params.on_overflow = "Skip"
    /\ Overflows(call.dump, call.params)

OverflowTruncate ==
    /\ IsAppend
    /\ call.params.on_overflow = "Truncate"
    /\ Overflows(call.dump, call.params)

\* ------------------------------------------------------------------ C1

\* C1: an append of a record that fits in max_size appends it; it returns
\* None as long as the buffer with the new terminator is not longer than
\* chunk_size, and the call that makes it longer returns a chunk that is the
\* concatenation, in call order, of the lines appended since the last chunk
\* (each record's encoding and one "\n"), with appended their number.
C1_ChunkWhenThresholdCrossed ==
    (IsAppend /\ Fits(call.dump, call.params)) =>
        /\ call.result = "appended"
        /\ held # <<>>
        /\ held[Len(held)] = Append(DirectLine(call.dump), NL)
        /\ ret.some <=> Len(Flatten(held)) > ser.chunk_size
        /\ ser.output = Flatten(held)
        /\ ret.some => ret.report.appended = Len(held)

\* Two test lines under a chunk size of exactly one line: the first append
\* reached the threshold and returned nothing, the second crossed it.
C1_Witness ==
    /\ IsAppend /\ Fits(call.dump, call.params)
    /\ ret.some
    /\ ser.chunk_size = Len(TestLine) + 1
    /\ held = <<Append(TestLine, NL), Append(TestLine, NL)>>
    /\ ret.report.appended = 2

\* ------------------------------------------------------------------ C2

\* C2: take returns None exactly when no line was appended since the last
\* chunk; otherwise, whatever chunk_size is, it returns all of those lines
\* with the report accumulated so far, and leaves an empty report.
C2_TakeDrainsAll ==
    IsTake =>
        /\ ret.some <=> held # <<>>
        /\ ret.some =>
            /\ ser.output = Flatten(held)
            /\ ret.report = Before
            /\ ser.report = EmptyReport
            /\ ser.report.appended = 0
            /\ ser.report.failed = EmptyMap
            /\ ser.report.overflow = EmptyMap

\* A take below the threshold that returns the one line appended, with a
\* report that also holds a failure.
C2_Witness ==
    /\ IsTake
    /\ ret.some
    /\ Len(ser.output) <= ser.chunk_size
    /\ Len(held) = 1
    /\ ret.report.appended = 1
    /\ ret.report.failed # EmptyMap

\* ------------------------------------------------------------------ C3

\* C3: a returned chunk stays in the buffer, marked to be cleared, until the
\* next call; that call clears it before it writes or drains, so the buffer
\* always holds exactly the lines appended since the last chunk (each line is
\* returned once), and a take right after a chunk returns None.
C3_DeferredClear ==
    /\ ser.need_to_clear <=> ret.some
    /\ ser.output = Flatten(held)
    /\ (call.op # "new" /\ call.before.need_to_clear) =>
        /\ Len(held) <= 1
        /\ Len(held) = 1 <=> (IsAppend /\ call.result = "appended")
        /\ IsTake => ~ret.some

\* An append right after a chunk: the buffer holds the new line alone.
C3_Witness ==
    /\ IsAppend
    /\ call.before.need_to_clear
    /\ call.before.output # <<>>
    /\ call.result = "appended"
    /\ ~ret.some
    /\ Len(held) = 1
    /\ ser.output = held[1]

\* ------------------------------------------------------------------ C4

RECURSIVE Escaped(_)
Escaped(text) ==
    IF text = <<>> THEN <<>>
    ELSE (IF Head(text) \in {Q, BS} THEN <<BS, Head(text)>> ELSE <<Head(text)>>)
         \o Escaped(Tail(text))

\* The longest run of whole writes of the payload's encoding that is within
\* max_size.
PayloadPrefix(message, max_size) ==
    LET ps == MessageEncoding(message).pieces
        fit == {k \in 0..Len(ps) : Len(Flatten(SubSeq(ps, 1, k))) <= max_size}
    IN  Flatten(SubSeq(ps, 1, CHOOSE k \in fit : \A j \in fit : j <= k))

\* The line of a record whose payload is replaced by the string `text`.
SubstitutedLine(dump, text) ==
    Flatten(HeadPieces(dump, CLASS, NODE_NO, dump.message_name))
    \o <<",", Q, "m", Q, ":", Q>> \o Escaped(text) \o <<Q>>
    \o Flatten(TailPieces(dump)) \o <<NL>>

C6_Original ==
    /\ (IsAppend /\ call.result # "appended") => ser.output = AtStart
    /\ (IsAppend /\ call.result = "failed") =>
            Len(ser.output) = Len(call.before.output)

\* C6, amended: an append that does not end with the record appended leaves
\* the buffer as it was at the start of the encode attempt and returns None;
\* that is the buffer before the call when no returned chunk is waiting to be
\* cleared, and the empty buffer when one is.
C6_RolledBackToAttemptStart ==
    (IsAppend /\ call.result # "appended") =>
        /\ ser.output = AtStart
        /\ ~ret.some
        /\ ~call.before.need_to_clear => ser.output = call.before.output
        /\ call.before.need_to_clear => ser.output = <<>>
        /\ ser.output = Flatten(held)

\* A record that fails structurally behind a buffered line, which stays.
C6_Witness ==
    /\ IsAppend
    /\ call.result = "failed"
    /\ ~call.before.need_to_clear
    /\ call.before.output = Append(TestLine, NL)
    /\ ser.output = Append(TestLine, NL)

\* ------------------------------------------------------------------ C7

\* The overflow entries of one flag.
Restrict(map, truncated) ==
    [k \in {j \in DOMAIN map : j[3] = truncated} |-> map[k]]

ChangedKeys(map, old) ==
    {k \in DOMAIN map : k \notin DOMAIN old \/ map[k] # old[k]}

\* map is old, or old with one more event counted under one key.
AtMostOnce(map, old) ==
    /\ DOMAIN old \subseteq DOMAIN map
    /\ Cardinality(ChangedKeys(map, old)) <= 1
    /\ \A k \in ChangedKeys(map, old) : Count(map, k) = Count(old, k) + 1

\* The statistics the last call changed.
T_appended == ReportAfter.appended # Before.appended
T_failed == ReportAfter.failed # Before.failed
T_skip == Restrict(ReportAfter.overflow, FALSE) # Restrict(Before.overflow, FALSE)
T_truncate == Restrict(ReportAfter.overflow, TRUE) # Restrict(Before.overflow, TRUE)

Touched ==
    {s \in {"appended", "failed", "skip", "truncate"} :
        \/ s = "appended" /\ T_appended
        \/ s = "failed" /\ T_failed
        \/ s = "skip" /\ T_skip
        \/ s = "truncate" /\ T_truncate}

\* C7 as stated: every append touches exactly one of appended, failed,
\* overflow with truncated=false and overflow with truncated=true, once, and
\* never two of them.
C7_Original ==
    IsAppend =>
        /\ Cardinality(Touched) = 1
        /\ ReportAfter.appended \in {Before.appended, Before.appended + 1}
        /\ AtMostOnce(ReportAfter.failed, Before.failed)
        /\ AtMostOnce(ReportAfter.overflow, Before.overflow)

\* C7, amended: every append touches each of the four statistics at most
\* once.  appended is touched exactly when the record is appended; failed
\* and overflow with truncated=false are each touched alone; overflow with
\* truncated=true is touched only together with appended, by a record that
\* is appended truncated; a call whose event is suppressed touches none.
C7_TouchedAtMostOnce ==
    IsAppend =>
        /\ ReportAfter.appended \in {Before.appended, Before.appended + 1}
        /\ AtMostOnce(ReportAfter.failed, Before.failed)
        /\ AtMostOnce(ReportAfter.overflow, Before.overflow)
        /\ T_appended <=> call.result = "appended"
        /\ T_failed => Touched = {"failed"} /\ call.result = "failed"
        /\ T_skip => Touched = {"skip"} /\ call.result = "skipped"
        /\ T_truncate => Touched = {"appended", "truncate"} /\ OverflowTruncate
        /\ Touched \in {{}, {"appended"}, {"failed"}, {"skip"},
                        {"appended", "truncate"}}

\* A truncated record touches two statistics, a suppressed skip none.
C7_Witness ==
    /\ IsAppend
    /\ Touched = {"appended", "truncate"}
    /\ \E i \in 1..Len(reports) : reports[i].overflow = EmptyMap

\* ------------------------------------------------------------------ C8

\* The last call met an overflow: it skipped the record or appended it
\* truncated.
OverflowEvent == IsAppend /\ (call.result = "skipped" \/ OverflowTruncate)

FailureEvent == IsAppend /\ call.result = "failed"

OverflowEventKey == OverflowKey(call.dump, call.result = "appended")

\* C8: an overflow event leaves the overflow map unchanged exactly when
\* on_overflow_log is none, a failure event leaves the failed map unchanged
\* exactly when on_failure_log is none, and a recorded entry has the level of
\* its own event class.
C8_Claim ==
    /\ OverflowEvent =>
        /\ ReportAfter.overflow = Before.overflow
            <=> call.params.on_overflow_log = "Off"
        /\ ReportAfter.overflow # Before.overflow =>
            ReportAfter.overflow[OverflowEventKey].level
                = call.params.on_overflow_log
    /\ FailureEvent =>
        /\ ReportAfter.failed = Before.failed
            <=> call.params.on_failure_log = "Off"
        /\ ReportAfter.failed # Before.failed =>
            ReportAfter.failed[FailedKey(call.dump)].level
                = call.params.on_failure_log

\* ------------------------------------------------------------------ C9

\* The last call recorded a failure.
FailureRecorded == FailureEvent /\ call.params.on_failure_log # "Off"

\* The error of the last call's record.
ErrorOf(dump) == MessageEncoding(dump.message).err

C10_Claim ==
    (IsAppend /\ ErrorOf(call.dump) # NoError) =>
        /\ call.result # "appended"
        /\ ser.output = AtStart
        /\ ReportAfter.appended = Before.appended

\* ------------------------------------------------------- Report::merge

\* Merges made into one report in a behaviour.
MaxMerges == 2

FailedDumpInfo(level, error, count) ==
    [level |-> level, error |-> error, count |-> count]
OverflowDumpInfo(level, count) == [level |-> level, count |-> count]

\* Reports as serializers return them: the lines counted, the failures and
\* the overflows of the two messages of the tests.
SampleReports ==
    {EmptyReport,
     [appended |-> 1, failed |-> EmptyMap, overflow |-> EmptyMap],
     [appended |-> 0,
      failed |-> FailedKey(BadDump) :> FailedDumpInfo("Warn", KeyMustBeAString, 1),
      overflow |-> EmptyMap],
     [appended |-> 2,
      failed |-> FailedKey(BadDump) :> FailedDumpInfo("Error", InvalidPath, 2),
      overflow |-> OverflowKey(GoodDump, FALSE) :> OverflowDumpInfo("Warn", 1)],
     [appended |-> 1,
      failed |-> FailedKey(GoodDump) :> FailedDumpInfo("Warn", KeyMustBeAString, 1),
      overflow |-> OverflowKey(GoodDump, TRUE) :> OverflowDumpInfo("Error", 1)],
     [appended |-> 0,
      failed |-> EmptyMap,
      overflow |-> OverflowKey(GoodDump, FALSE) :> OverflowDumpInfo("Error", 2)],
     [appended |-> 3,
      failed |-> (FailedKey(BadDump) :> FailedDumpInfo("Warn", KeyMustBeAString, 1))
                 @@ (FailedKey(GoodDump) :> FailedDumpInfo("Error", InvalidPath, 1)),
      overflow |-> (OverflowKey(GoodDump, FALSE) :> OverflowDumpInfo("Warn", 1))
                   @@ (OverflowKey(GoodDump, TRUE) :> OverflowDumpInfo("Warn", 2))]}

\* The serializer put aside while a part is run on its own.
SerializerAside ==
    /\ ser = with_chunk_size(ChunkSizeLow, CLASS, NODE_NO)
    /\ ret = None
    /\ call = Call("new", GoodDump, DefaultParams, "none", ser)
    /\ held = <<>>
    /\ reports = <<>>
    /\ ncalls = 0

Merging(self, parts, before) ==
    [self |-> self, parts |-> parts, before |-> before]

MergeInit ==
    /\ SerializerAside
    /\ \E r \in SampleReports : merging = Merging(r, <<r>>, r)
    /\ encoding = Idle
    /\ writing = Idle

\* self.merge(another).
Merge(another) ==
    /\ Len(merging.parts) <= MaxMerges
    /\ merging' = Merging(merge(merging.self, another),
                          Append(merging.parts, another), merging.self)
    /\ UNCHANGED <<serializer_vars, encoding, writing>>

MergeNext == \E another \in SampleReports : Merge(another)

MergeSpec == MergeInit /\ [][MergeNext]_vars

\* ----------------------------------------------------------------- C11

Merged == merging # Idle /\ Len(merging.parts) >= 2

\* The report handed to the last merge.
Another == merging.parts[Len(merging.parts)]

\* map is what the claim says of a and b merged: the counts of the keys of
\* both added up, the entries of b alone and of a alone as they were.
MergedMap(map, a, b) ==
    /\ DOMAIN map = DOMAIN a \cup DOMAIN b
    /\ \A k \in DOMAIN a \cap DOMAIN b : map[k].count = a[k].count + b[k].count
    /\ \A k \in DOMAIN b \ DOMAIN a : map[k] = b[k]
    /\ \A k \in DOMAIN a \ DOMAIN b : map[k] = a[k]

\* C11: merge adds up appended; the count of a key of both reports is the sum
\* of the two counts; a key of the other report alone is inserted with its
\* entry as it is, and a key of self alone keeps its entry.
C11_MergeAddsCounts ==
    Merged =>
        /\ merging.self.appended = merging.before.appended + Another.appended
        /\ MergedMap(merging.self.failed, merging.before.failed, Another.failed)
        /\ MergedMap(merging.self.overflow, merging.before.overflow,
                     Another.overflow)

\* One merge with a key of both reports, a key of the other alone and a key
\* of self alone.
C11_Witness ==
    /\ Merged
    /\ FailedKey(BadDump) \in DOMAIN merging.before.failed \cap DOMAIN Another.failed
    /\ merging.self.failed[FailedKey(BadDump)].count = 3
    /\ OverflowKey(GoodDump, FALSE) \in DOMAIN Another.overflow \ DOMAIN merging.before.overflow
    /\ OverflowKey(GoodDump, TRUE) \in DOMAIN merging.before.overflow \ DOMAIN Another.overflow
    /\ merging.self.appended = 3

\* ----------------------------------------------------------------- C12

\* What a report counts: its lines, and per key its failures and overflows.
Counts(report) ==
    [appended |-> report.appended,
     failed |-> [k \in DOMAIN report.failed |-> report.failed[k].count],
     overflow |-> [k \in DOMAIN report.overflow |-> report.overflow[k].count]]

\* The levels a report holds per key.
LevelsOf(report) ==
    [failed |-> [k \in DOMAIN report.failed |-> report.failed[k].level],
     overflow |-> [k \in DOMAIN report.overflow |-> report.overflow[k].level]]

\* The orders n reports can be merged in.
Orders(n) == {f \in [1..n -> 1..n] : \A i, j \in 1..n : f[i] = f[j] => i = j}

InOrder(parts, f) == [i \in 1..Len(parts) |-> parts[f[i]]]

\* What merging the reports of parts gives, kept in their order, under every
\* grouping: each is merged alone or after its neighbours were merged.
RECURSIVE Groupings(_)
Groupings(parts) ==
    IF Len(parts) = 1 THEN {parts[1]}
    ELSE UNION {{merge(x, y) :
                    x \in Groupings(SubSeq(parts, 1, i)),
                    y \in Groupings(SubSeq(parts, i + 1, Len(parts)))} :
                i \in 1..(Len(parts) - 1)}

\* The last of parts that holds key in its map named field ("failed" or
\* "overflow").
LastHolding(parts, field, key) ==
    parts[CHOOSE i \in 1..Len(parts) :
            /\ key \in DOMAIN parts[i][field]
            /\ \A j \in (i + 1)..Len(parts) : key \notin DOMAIN parts[j][field]]

\* C12: merged in any order and any grouping, the reports give the same
\* appended total and the same failed and overflow count per key; the level of
\* a key is that of the report merged last among those that hold it.
C12_CountsAnyOrder ==
    Merged =>
        /\ \A f \in Orders(Len(merging.parts)) :
            \A r \in Groupings(InOrder(merging.parts, f)) :
                Counts(r) = Counts(merging.self)
        /\ \A r \in Groupings(merging.parts) :
            /\ LevelsOf(r) = LevelsOf(merging.self)
            /\ \A k \in DOMAIN r.failed :
                r.failed[k].level
                    = LastHolding(merging.parts, "failed", k).failed[k].level
            /\ \A k \in DOMAIN r.overflow :
                r.overflow[k].level
                    = LastHolding(merging.parts, "overflow", k).overflow[k].level

\* Three reports merged: two hold one overflow key with different levels, the
\* last merged does not hold it, and the other order of the two gives the
\* other level with the same counts.
C12_Witness ==
    /\ Merged
    /\ Len(merging.parts) = 3
    /\ OverflowKey(GoodDump, FALSE) \in DOMAIN merging.parts[1].overflow
    /\ OverflowKey(GoodDump, FALSE) \in DOMAIN merging.parts[2].overflow
    /\ OverflowKey(GoodDump, FALSE) \notin DOMAIN merging.parts[3].overflow
    /\ merging.parts[1].overflow[OverflowKey(GoodDump, FALSE)].level = "Warn"
    /\ merging.self.overflow[OverflowKey(GoodDump, FALSE)]
        = OverflowDumpInfo("Error", 3)
    /\ merge(merge(merging.parts[2], merging.parts[1]), merging.parts[3])
        .overflow[OverflowKey(GoodDump, FALSE)] = OverflowDumpInfo("Warn", 3)

\* --------------------------------------------------------- tests::normal

\* Appends made to one serializer in a behaviour of tests::normal.
NormalCalls == 22

\* tests::normal: let chunk_size = 1024.
NormalChunkSize == 1024

\* Body lengths of the test's record tried.
MaxBody == 4

\* A record whose line is 100 bytes, 101 with its terminator: no key, names
\* of one byte, a payload without fields, in a serializer of class "c" on
\* node 1.
ShortDump ==
    [timestamp |-> 2, group |-> <<"g">>, key |-> <<>>, sequence_no |-> 1,
     trace_id |-> 1, thread_id |-> 0, direction |-> S_Out,
     message_protocol |-> <<"p">>, message_name |-> <<"M">>,
     message_kind |-> "Regular", correlation_id |-> 0,
     message |-> [type |-> "Empty", len |-> 0]]

\* The serializers and the record each is fed: the test's, with bodies of
\* several lengths, and the one of the 101-byte line.
NormalCases ==
    {[class |-> CLASS, node_no |-> NODE_NO,
      dump |-> Dump(42, S_Some, "Regular", 0, [type |-> "Some", len |-> n])] :
        n \in 0..MaxBody}
    \cup {[class |-> <<"c">>, node_no |-> 1, dump |-> ShortDump]}

NormalInit ==
    /\ \E c \in NormalCases :
        /\ ser = with_chunk_size(NormalChunkSize, c.class, c.node_no)
        /\ call = Call("new", c.dump, DefaultParams, "none", ser)
    /\ ret = None
    /\ held = <<>>
    /\ reports = <<>>
    /\ ncalls = 0
    /\ merging = Idle
    /\ encoding = Idle
    /\ writing = Idle

\* serializer.append(&sample, &DumpParams::default()).
NormalAppend ==
    /\ ncalls < NormalCalls
    /\ \E r \in {append(ser, call.dump, DefaultParams)} :
        AppendCall(call.dump, DefaultParams, r)

NormalNext == NormalAppend

NormalSpec == NormalInit /\ [][NormalNext]_vars

\* ----------------------------------------------------------------- C13

\* The line of the record fed, with its terminator, as this serializer
\* encodes it.
SampleLine ==
    Append(Flatten(CompactDumpEncoding(call.dump, ser.class, ser.node_no,
                                       call.dump.message_name,
                                       NoMessage).pieces), NL)

\* n copies of line.
RECURSIVE Lines(_, _)
Lines(line, n) == IF n = 0 THEN <<>> ELSE line \o Lines(line, n - 1)

\* C13 as stated: with chunk_size 1024 and identical records whose line with
\* its terminator is 101 bytes, appended with default params to a fresh
\* serializer, the first 10 appends return None and the 11th returns a chunk
\* of exactly those 10 lines with report.appended = 10.
C13_Original ==
    (/\ ser.chunk_size = NormalChunkSize
     /\ Len(SampleLine) = 101
     /\ ncalls \in 1..11) =>
        /\ ncalls <= 10 => ~ret.some
        /\ ncalls = 11 =>
            /\ ret.some
            /\ ser.output = Lines(SampleLine, 10)
            /\ ret.report.appended = 10

\* C13, amended: with chunk_size 1024 and identical records whose line with
\* its terminator is L bytes, appended with default params to a fresh
\* serializer, the first 1024 div L appends of every round return None and
\* the next returns a chunk of all the lines of the round, its own included,
\* with report.appended their number and no failed or overflow entry: for 101
\* bytes the first 10 return None and the 11th returns 11 lines with
\* report.appended = 11; for the 142 bytes of the test's record the first 7
\* return None and the 8th returns 8 lines.
C13_ChunkHoldsTriggeringLine ==
    (ser.chunk_size = NormalChunkSize /\ ncalls > 0) =>
        /\ ret.some <=> ncalls % ((NormalChunkSize \div Len(SampleLine)) + 1) = 0
        /\ ret.some =>
            /\ ser.output
                = Lines(SampleLine, (NormalChunkSize \div Len(SampleLine)) + 1)
            /\ ret.report
                = [appended |-> (NormalChunkSize \div Len(SampleLine)) + 1,
                   failed |-> EmptyMap, overflow |-> EmptyMap]
        /\ Len(SampleLine) = 101 => (ret.some <=> ncalls \in {11, 22})
        /\ SampleLine = Append(TestLine, NL) => (ret.some <=> ncalls \in {8, 16})

\* The 11th append of the record of the 101-byte line: 11 lines are returned.
C13_Witness ==
    /\ ser.chunk_size = NormalChunkSize
    /\ Len(SampleLine) = 101
    /\ ncalls = 11
    /\ ret.some
    /\ Len(ser.output) = 1111
    /\ ret.report.appended = 11

\* ------------------------------------------------ CompactDump::serialize

\* Body lengths of the records encoded on their own.
MaxEncodedBody == 2

\* The records encoded: with and without an actor key, of every kind, with
\* bodies of several lengths.
EncodeDumps ==
    {[Dump(s, S_Some, kind, 7, [type |-> "Some", len |-> n])
        EXCEPT !.key = key] :
        s \in {1, 42},
        key \in {<<>>, S_key},
        kind \in {"Regular", "Request", "Response"},
        n \in 0..MaxEncodedBody}

\* CompactDump::message: none, or a text put in the payload's place; the
\* second text is what tests::truncated substitutes.
EncodeMessages ==
    {NoMessage,
     SomeMessage(TRUNCATED),
     SomeMessage(<<"{", Q, "b", "o", "d", "y", Q, ":", Q>> \o TRUNCATED)}

Encoding_(dump, message, done, out) ==
    [dump |-> dump, message |-> message, done |-> done, out |-> out]

EncodeInit ==
    /\ SerializerAside
    /\ merging = Idle
    /\ \E d \in EncodeDumps, m \in EncodeMessages :
        encoding = Encoding_(d, m, FALSE, <<>>)
    /\ writing = Idle

\* serde_json::to_writer(&mut output, &compact_dump) on an empty output.
Encode ==
    /\ ~encoding.done
    /\ encoding' = Encoding_(encoding.dump, encoding.message, TRUE,
                        to_writer(<<>>,
                            CompactDumpEncoding(encoding.dump, CLASS, NODE_NO,
                                                encoding.dump.message_name,
                                                encoding.message)).sink)
    /\ UNCHANGED <<serializer_vars, merging, writing>>

EncodeNext == Encode

EncodeSpec == EncodeInit /\ [][EncodeNext]_vars

\* ----------------------------------------------------------------- C14

\* Reading a record back.  A quote of b is a quote byte behind an even number
\* of backslashes; a byte is outside the strings when an even number of
\* quotes precedes it.
Backslashes(b, i) ==
    CHOOSE k \in 0..(i - 1) :
        /\ \A j \in (i - k)..(i - 1) : b[j] = BS
        /\ (k = i - 1 \/ b[i - k - 1] # BS)

Quotes(b) == {i \in 1..Len(b) : b[i] = Q /\ Backslashes(b, i) % 2 = 0}

CountBefore(set, i) == Cardinality({j \in set : j < i})

\* The braces of b outside its strings.
Braces(b, quotes, brace) ==
    {i \in 1..Len(b) : b[i] = brace /\ CountBefore(quotes, i) % 2 = 0}

\* The quotes that close a key of the outermost object: they close a string,
\* a colon follows, and one brace is open.
KeyEnds(b, quotes, opened, closed) ==
    {i \in quotes :
        /\ CountBefore(quotes, i) % 2 = 1
        /\ i < Len(b)
        /\ b[i + 1] = ":"
        /\ CountBefore(opened, i) - CountBefore(closed, i) = 1}

\* The keys that end at `ends`, in their order, each with the place its value
\* starts at.
KeysAt(b, quotes, ends) ==
    [n \in 1..Cardinality(ends) |->
        LET close == CHOOSE i \in ends : CountBefore(ends, i) = n - 1
            open == CHOOSE i \in quotes :
                        i < close /\ CountBefore(quotes, close) - CountBefore(quotes, i) = 1
        IN  [key |-> SubSeq(b, open + 1, close - 1), at |-> close + 2]]

FieldsOf(b, quotes) ==
    KeysAt(b, quotes,
           KeyEnds(b, quotes, Braces(b, quotes, "{"), Braces(b, quotes, "}")))

\* The fields of the outermost object of b.
Fields(b) == FieldsOf(b, Quotes(b))

KeysOf(fields) == [i \in 1..Len(fields) |-> fields[i].key]

\* The bytes of b from `at` up to the next quote: a string value without
\* escapes, read from behind its opening quote.
RECURSIVE Unquoted(_, _)
Unquoted(b, at) ==
    IF at > Len(b) \/ b[at] = Q THEN <<>>
    ELSE <<b[at]>> \o Unquoted(b, at + 1)

\* The value of the field `key`, a string.
StringField(b, key) ==
    LET fs == Fields(b)
        i == CHOOSE j \in 1..Len(fs) : fs[j].key = key
    IN  Unquoted(b, fs[i].at + 1)

\* The order the claim gives the fields, for a record with or without a key
\* and with or without a correlation id.
FieldOrder(with_k, with_c) ==
    <<S_ts, S_g>> \o (IF with_k THEN <<S_k>> ELSE <<>>)
    \o <<S_n, S_s, S_t, S_th, S_d, S_cl, S_mn, S_mp, S_mk, S_m>>
    \o (IF with_c THEN <<S_c>> ELSE <<>>)

\* C14: every record lists its fields in the order ts, g, k, n, s, t, th, d,
\* cl, mn, mp, mk, m, c; k is there exactly when the actor key is not empty,
\* c exactly when the kind is Request or Response, mk is the name of the
\* kind, and the others are always there, with the payload or with a text in
\* its place.
C14_FieldOrder ==
    (encoding # Idle /\ encoding.done) =>
        /\ KeysOf(Fields(encoding.out))
            = FieldOrder(encoding.dump.key # <<>>,
                         encoding.dump.message_kind \in {"Request", "Response"})
        /\ StringField(encoding.out, S_mk)
            \in {S_Regular, S_Request, S_Response}
        /\ StringField(encoding.out, S_mk)
            = (CASE encoding.dump.message_kind = "Regular" -> S_Regular
                 [] encoding.dump.message_kind = "Request" -> S_Request
                 [] encoding.dump.message_kind = "Response" -> S_Response)
        /\ Head(encoding.out) = "{"
        /\ encoding.out[Len(encoding.out)] = "}"

\* A request without an actor key, encoded with a text in the payload's
\* place: no k, and c behind m.
C14_Witness ==
    /\ encoding # Idle
    /\ encoding.done
    /\ encoding.dump.key = <<>>
    /\ encoding.dump.message_kind = "Request"
    /\ encoding.message.some
    /\ Len(KeysOf(Fields(encoding.out))) = 13
    /\ KeysOf(Fields(encoding.out))[13] = S_c
    /\ KeysOf(Fields(encoding.out))[3] = S_n

\* ------------------------------------------------------------ LimitedWrite

\* The largest budget a writer starts with, the longest buffer written and
\* the calls made on one writer.
MaxBudget == 4
MaxBuf == 2
MaxWriterCalls == 3

\* The buffers written: every string of "a" and "b" of up to MaxBuf bytes.
RECURSIVE Strings(_)
Strings(n) ==
    IF n = 0 THEN {<<>>}
    ELSE Strings(n - 1)
         \cup {Append(s, c) : s \in {x \in Strings(n - 1) : Len(x) = n - 1},
                              c \in {"a", "b"}}

WriteBufs == Strings(MaxBuf)

\* A LimitedWrite over a Vec<u8>.
Writer(sink, remaining) == [sink |-> sink, remaining |-> remaining]

Writing(w, initial, calls, last) ==
    [w |-> w, initial |-> initial, calls |-> calls, last |-> last]

NoCall == [op |-> "new", buf |-> <<>>, n |-> 0, before |-> Writer(<<>>, 0)]

\* LimitedWrite(Vec::new(), budget).
WriteInit ==
    /\ SerializerAside
    /\ merging = Idle
    /\ encoding = Idle
    /\ \E budget \in 0..MaxBudget :
        writing = Writing(Writer(<<>>, budget), budget, 0, NoCall)

WriteDone(buf, r) ==
    writing' = Writing(Writer(r.sink, r.remaining), writing.initial,
                       writing.calls + 1,
                       [op |-> "write", buf |-> buf, n |-> r.n,
                        before |-> writing.w])

\* writer.write(buf).
Write(buf) ==
    /\ writing.calls < MaxWriterCalls
    /\ WriteDone(buf, LimitedWrite_write(writing.w.sink, writing.w.remaining,
                                         buf))
    /\ UNCHANGED <<serializer_vars, merging, encoding>>

FlushDone(r) ==
    writing' = Writing(Writer(r.sink, r.remaining), writing.initial,
                       writing.calls + 1,
                       [op |-> "flush", buf |-> <<>>, n |-> 0,
                        before |-> writing.w])

\* writer.flush().
Flush ==
    /\ writing.calls < MaxWriterCalls
    /\ FlushDone(LimitedWrite_flush(writing.w.sink, writing.w.remaining))
    /\ UNCHANGED <<serializer_vars, merging, encoding>>

WriteAny == \E buf \in WriteBufs : Write(buf)

WriteNext == WriteAny \/ Flush

WriteSpec == WriteInit /\ [][WriteNext]_vars

\* ----------------------------------------------------------------- C15

Wrote == writing # Idle /\ writing.last.op = "write"
Flushed == writing # Idle /\ writing.last.op = "flush"

\* C15: a write of more bytes than remain reports a zero-length write and
\* leaves the budget and the sink as they were; a write of no more bytes than
\* remain, exactly as many included, forwards all of them and takes their
\* number off the budget; so the bytes forwarded never exceed the first
\* budget; flush changes nothing.
C15_BoundedWriter ==
    /\ (Wrote /\ Len(writing.last.buf) > writing.last.before.remaining) =>
        /\ writing.last.n = 0
        /\ writing.w = writing.last.before
    /\ (Wrote /\ Len(writing.last.buf) <= writing.last.before.remaining) =>
        /\ writing.last.n = Len(writing.last.buf)
        /\ writing.w.sink = writing.last.before.sink \o writing.last.buf
        /\ writing.w.remaining
            = writing.last.before.remaining - Len(writing.last.buf)
    /\ Flushed => writing.w = writing.last.before
    /\ writing # Idle =>
        /\ Len(writing.w.sink) <= writing.initial
        /\ Len(writing.w.sink) + writing.w.remaining = writing.initial
        /\ writing.w.remaining >= 0

\* A write of exactly the bytes that remain is forwarded, and the write of
\* one byte after it is refused.
C15_Witness ==
    /\ Wrote
    /\ writing.initial = 2
    /\ writing.w.sink = <<"a", "b">>
    /\ writing.w.remaining = 0
    /\ writing.last.buf = <<"b">>
    /\ writing.last.n = 0
    /\ writing.last.before.sink = <<"a", "b">>

\* ------------------------------------------------------ a retry that fails

\* A request whose correlation id cannot be encoded: under a budget the
\* header exceeds, the first attempt ends at the limit and only the retry
\* reaches the field that fails.
FaultyDump ==
    Dump(7, S_Some, "Request", Unencodable, [type |-> "Some", len |-> 4])

\* The appends of the serializer whose retry can fail.
RetryInputs ==
    ({FaultyDump} \X
        ({DumpParams(MaxSizeSmall, "Truncate", l[1], l[2]) : l \in LogPairs}
         \cup {DumpParams(MaxSizeSmall, "Skip", "Warn", "Warn"),
               DefaultParams}))
    \cup ({GoodDump} \X
            {DumpParams(MaxSizeSmall, "Truncate", "Warn", "Warn"),
             DefaultParams})

RetryAppendAny == \E input \in RetryInputs : Append_(input[1], input[2])

RetryNext == RetryAppendAny \/ Take

RetrySpec == Init /\ [][RetryNext]_vars

\* ----------------------------------------------------------------- C16

\* The last call went the way of Truncate and its retry failed.
RetryFailed == OverflowTruncate /\ call.result = "failed"

NumLines(bytes) == Cardinality({i \in 1..Len(bytes) : bytes[i] = NL})

\* C17: after any calls, when no returned chunk waits to be cleared
\* report.appended is the number of terminated lines in the buffer, and the
\* report returned with a chunk counts the lines of that chunk.
C17_AppendedCountsLines ==
    /\ ~ser.need_to_clear => ser.report.appended = NumLines(ser.output)
    /\ ret.some => ret.report.appended = NumLines(ser.output)
    /\ ser.output # <<>> => ser.output[Len(ser.output)] = NL

\* A chunk of two lines, the second truncated, returned after a failure in
\* between.
C17_Witness ==
    /\ ret.some
    /\ NumLines(ser.output) = 2
    /\ ret.report.appended = 2
    /\ ret.report.failed # EmptyMap
    /\ ret.report.overflow # EmptyMap
    /\ ncalls = 3

\* ----------------------------------------------------------------- C18

\* The events of key that the reports of seq count in their map named field
\* ("failed" or "overflow").
RECURSIVE Drained(_, _, _)
Drained(seq, field, key) ==
    IF seq = <<>> THEN 0
    ELSE Count(Head(seq)[field], key) + Drained(Tail(seq), field, key)

\* The reports returned before the last call.
ReportsBefore ==
    IF ret.some THEN SubSeq(reports, 1, Len(reports) - 1) ELSE reports

\* The events of key counted so far, returned or still in the serializer, and
\* the same before the last call.
Counted(field, key) ==
    Drained(reports, field, key) + Count(ser.report[field], key)
CountedBefore(field, key) ==
    Drained(ReportsBefore, field, key) + Count(Before[field], key)

\* What the last call recorded under key: one failure, one overflow, or
\* nothing.  add_overflow records when on_failure_log resolves a level.
RecordedFailure(key) ==
    IF FailureRecorded /\ key = FailedKey(call.dump) THEN 1 ELSE 0
RecordedOverflow(key) ==
    IF OverflowEvent /\ call.params.on_failure_log # "Off"
       /\ key = OverflowEventKey
    THEN 1 ELSE 0

FailedKeys == {FailedKey(d) : d \in Dumps \cup {FaultyDump}}
OverflowKeys ==
    {OverflowKey(d, b) : d \in Dumps \cup {FaultyDump}, b \in BOOLEAN}

\* No event is lost or counted twice: what is counted after a call is what
\* was counted before it and what the call recorded.
Conserved ==
    /\ \A k \in FailedKeys :
        Counted("failed", k) = CountedBefore("failed", k) + RecordedFailure(k)
    /\ \A k \in OverflowKeys :
        Counted("overflow", k)
            = CountedBefore("overflow", k) + RecordedOverflow(k)
    /\ \A i \in 1..Len(reports) :
        /\ DOMAIN reports[i].failed \subseteq FailedKeys
        /\ DOMAIN reports[i].overflow \subseteq OverflowKeys
    /\ DOMAIN ser.report.failed \subseteq FailedKeys
    /\ DOMAIN ser.report.overflow \subseteq OverflowKeys

\* C18 as stated: a take, a skipped append or a failed append on a buffer
\* with no pending bytes returns None and leaves the report unchanged, even
\* one that holds entries; and every recorded event is counted in exactly one
\* returned report or in the serializer's report.
C18_Original ==
    /\ ((IsTake \/ (IsAppend /\ call.result \in {"skipped", "failed"}))
        /\ AtStart = <<>>) =>
            /\ ~ret.some
            /\ ser.report = Before
    /\ call.op # "new" => Conserved

\* C18, amended: a take on a buffer with no pending bytes returns None and
\* leaves the report unchanged, even one that holds entries; a skipped or
\* failed append returns None, on any buffer, and keeps every entry the
\* report held, adding at most its own event to it; and every recorded event
\* is counted in exactly one returned report or in the serializer's report.
C18_EntriesKeptUntilDrained ==
    /\ (IsTake /\ AtStart = <<>>) =>
        /\ ~ret.some
        /\ ser.report = Before
    /\ (IsAppend /\ call.result \in {"skipped", "failed"}) =>
        /\ ~ret.some
        /\ ser.report.appended = Before.appended
        /\ AtMostOnce(ser.report.failed, Before.failed)
        /\ AtMostOnce(ser.report.overflow, Before.overflow)
        /\ call.result = "skipped" => ser.report.failed = Before.failed
        /\ call.result = "failed" => ser.report.overflow = Before.overflow
    /\ ret.some => ret.report = Before \/ IsAppend
    /\ call.op # "new" => Conserved

\* A take on an empty buffer after a failure and a skip: None, and both
\* entries stay in the report.
C18_Witness ==
    /\ IsTake
    /\ AtStart = <<>>
    /\ ~ret.some
    /\ reports = <<>>
    /\ ser.report.failed # EmptyMap
    /\ ser.report.overflow # EmptyMap

\* ----------------------------------------------------------------- C19

\* C19: between calls, when no returned chunk waits to be cleared the buffer
\* is not longer than chunk_size; so a chunk returned by append exceeds
\* chunk_size by no more than its last line with the terminator; and when a
\* returned chunk waits to be cleared the serializer's report is empty.
C19_BufferWithinChunkSize ==
    /\ ~ser.need_to_clear => Len(ser.output) <= ser.chunk_size
    /\ (IsAppend /\ ret.some) =>
        /\ held # <<>>
        /\ Len(ser.output) > ser.chunk_size
        /\ Len(ser.output) - Len(held[Len(held)]) <= ser.chunk_size
    /\ ser.need_to_clear => ser.report = EmptyReport

\* A buffer of exactly chunk_size bytes kept, and the chunk the next line
\* makes of it: it exceeds chunk_size by all of its last line.
C19_Witness ==
    /\ IsAppend
    /\ ret.some
    /\ ser.need_to_clear
    /\ Len(call.before.output) = ser.chunk_size
    /\ ~call.before.need_to_clear
    /\ Len(ser.output) = ser.chunk_size + Len(held[Len(held)])

\* ----------------------------------------------------------------- C20

\* The bytes the last call left in the buffer past the start of its encode
\* attempt.
LastWritten == SubSeq(ser.output, Len(AtStart) + 1, Len(ser.output))

\* The last call appended the record as the encoder writes it in full.
AppendedWhole ==
    /\ IsAppend
    /\ call.result = "appended"
    /\ LastWritten = Append(DirectLine(call.dump), NL)

\* The last call appended something else: the record with its payload
\* replaced.
AppendedTruncated ==
    /\ IsAppend
    /\ call.result = "appended"
    /\ LastWritten # Append(DirectLine(call.dump), NL)

\* The scratch text before its last Len(TRUNCATED) bytes.
ScratchPayload ==
    SubSeq(ser.message_buffer, 1, Len(ser.message_buffer) - Len(TRUNCATED))

\* C20: a record appended without truncation is, without its terminator, at
\* most params.max_size bytes long.  In the truncation fallback the scratch
\* text is at most params.max_size bytes of payload followed by the marker,
\* and the record written is the one with that text for payload, encoded
\* without a budget: it is longer than the whole scratch text, so max_size
\* does not bound it.
C20_BudgetBoundsFirstEncode ==
    /\ AppendedWhole => Len(LastWritten) - 1 <= call.params.max_size
    /\ AppendedTruncated =>
        /\ Len(ser.message_buffer) >= Len(TRUNCATED)
        /\ ser.message_buffer = ScratchPayload \o TRUNCATED
        /\ Len(ScratchPayload) <= call.params.max_size
        /\ LastWritten =
              Append(Flatten(Encoding(call.before, call.dump,
                        SomeMessage(from_utf8_lossy(ser.message_buffer))).pieces),
                     NL)
        /\ Len(LastWritten) - 1 > Len(ser.message_buffer)

\* A record appended whole within its budget, then a truncated one whose
\* line is longer than its max_size, with payload text in the scratch.
C20_Witness ==
    /\ AppendedTruncated
    /\ Len(held) = 2
    /\ held[1] = Append(DirectLine(GoodDump), NL)
    /\ Len(held[1]) - 1 <= MaxSizeLarge
    /\ ScratchPayload # <<>>
    /\ Len(LastWritten) - 1 > call.params.max_size
=============================================================================
